---------------------------- MODULE Spec2Model ----------------------------
(***************************************************************************)
(* A model of the defi-tracker snapshot scripts:                           *)
(*   scripts/update_latest.py  (per-market query, sequential, TVL floor)   *)
(*   scripts/latest.py         (per-reserve query, asyncio.gather)         *)
(* and of the ranking function sort_markets both of them share.            *)
(*                                                                         *)
(* Representation.  A Python str is the sequence of its code points, so    *)
(* upper(), lower(), strip(), startswith() and the lexicographic order of  *)
(* the sort key are computed, not assumed.  A JSON value that may be null  *)
(* is a sequence of length 0 (null / key absent) or 1 (the value).  A      *)
(* float is an integer (APYs in basis points, money in USD).  Market and   *)
(* token addresses are only ever copied and compared for equality, so      *)
(* they stay TLA+ strings.                                                 *)
(***************************************************************************)
EXTENDS Integers, Sequences, FiniteSets, TLC

VARIABLES
    script,       \* which entry point runs: "update_latest" or "latest"
    cfg,          \* the parsed content of data/markets.json
    pc,           \* position of main(): start, loop, awaiting, gather, written, failed
    min_tvl,      \* update_latest.main: min_tvl
    mi,           \* update_latest.main: index in markets_cfg of the market being handled
    pending,      \* update_latest.main: reserves of the current response not yet processed
    chain_id,     \* update_latest.main: chain_id of the current response
    chain_name,   \* update_latest.main: chain_name of the current response
    rows,         \* update_latest.main: all_rows
    totals,       \* update_latest.main: totals
    tasks,        \* latest.main: one record per fetch_aave coroutine handed to gather
    completed,    \* latest.main: indices of the finished coroutines, in completion order
    netCalls,     \* number of session.post calls issued so far in this run
    latest_json,  \* content of data/latest.json: Null, or <<the snapshot written>>
    err,          \* Null, or <<the exception that ended the run>>
    sortIn,       \* the argument of a call of sort_markets
    sortOut       \* Null, or <<its return value>>

vars == <<script, cfg, pc, min_tvl, mi, pending, chain_id, chain_name, rows,
          totals, tasks, completed, netCalls, latest_json, err, sortIn, sortOut>>

-----------------------------------------------------------------------------
(* Nullable values *)

Null == <<>>
Some(x) == <<x>>
IsNull(x) == x = <<>>
Val(x) == x[1]

-----------------------------------------------------------------------------
(* Python str operations, on sequences of code points *)

UpperChar(c) == IF c >= 97 /\ c <= 122 THEN c - 32 ELSE c
LowerChar(c) == IF c >= 65 /\ c <= 90 THEN c + 32 ELSE c

StrUpper(s) == [i \in 1 .. Len(s) |-> UpperChar(s[i])]
StrLower(s) == [i \in 1 .. Len(s) |-> LowerChar(s[i])]

\* str.isspace() on ASCII: \t \n \v \f \r, the separators 28..31, and space
Whitespace == (9 .. 13) \cup (28 .. 32)

RECURSIVE LStrip(_)
LStrip(s) == IF s # <<>> /\ Head(s) \in Whitespace THEN LStrip(Tail(s)) ELSE s

RECURSIVE RStrip(_)
RStrip(s) ==
    IF s # <<>> /\ s[Len(s)] \in Whitespace THEN RStrip(SubSeq(s, 1, Len(s) - 1)) ELSE s

StrStrip(s) == RStrip(LStrip(s))

StartsWith(s, c) == s # <<>> /\ Head(s) = c

\* Python's order on str: by code point, a proper prefix first
RECURSIVE StrLess(_, _)
StrLess(s, t) ==
    IF t = <<>> THEN FALSE
    ELSE IF s = <<>> THEN TRUE
    ELSE IF Head(s) # Head(t) THEN Head(s) < Head(t)
    ELSE StrLess(Tail(s), Tail(t))

-----------------------------------------------------------------------------
(* The strings the model uses *)

S_USDC   == <<85, 83, 68, 67>>
S_USDT   == <<85, 83, 68, 84>>
S_USDE   == <<85, 83, 68, 69>>
S_SUSDE  == <<83, 85, 83, 68, 69>>
S_PYUSD  == <<80, 89, 85, 83, 68>>
S_RLUSD  == <<82, 76, 85, 83, 68>>
S_USDG   == <<85, 83, 68, 71>>
S_aUSDC  == <<97, 85, 83, 68, 67>>                       \* "aUSDC"
S_WETH   == <<87, 69, 84, 72>>                           \* "WETH"
S_Ethereum == <<69, 116, 104, 101, 114, 101, 117, 109>>  \* "Ethereum"
S_ethereum == StrLower(S_Ethereum)                       \* "ethereum"
S_eth      == <<101, 116, 104>>                          \* "eth"
S_mainnet  == <<109, 97, 105, 110, 110, 101, 116>>       \* "mainnet"
S_Mainnet_ == <<32, 77, 97, 105, 110, 110, 101, 116, 32>> \* " Mainnet "
S_Polygon  == <<80, 111, 108, 121, 103, 111, 110>>       \* "Polygon"
S_polygon  == StrLower(S_Polygon)                        \* "polygon"
S_unknown  == <<117, 110, 107, 110, 111, 119, 110>>      \* "unknown"

-----------------------------------------------------------------------------
(* Classifier *)

STABLE_SYMBOLS == {S_USDC, S_USDT, S_USDE, S_SUSDE, S_PYUSD, S_RLUSD, S_USDG}

\* update_latest.is_stable; the argument is a str ("" when the symbol is unknown)
is_stable(symbol) ==
    IF symbol = <<>> THEN FALSE
    ELSE LET s  == StrStrip(StrUpper(symbol))
             s1 == IF StartsWith(s, 65) /\ Tail(s) \in STABLE_SYMBOLS THEN Tail(s) ELSE s
         IN  s1 \in STABLE_SYMBOLS

\* latest.is_stable: the "A" rule, then also a "W" rule
is_stable_latest(symbol) ==
    IF symbol = <<>> THEN FALSE
    ELSE LET s  == StrStrip(StrUpper(symbol))
             s1 == IF StartsWith(s, 65) /\ Tail(s) \in STABLE_SYMBOLS THEN Tail(s) ELSE s
             s2 == IF StartsWith(s1, 87) /\ Tail(s1) \in STABLE_SYMBOLS THEN Tail(s1) ELSE s1
         IN  s2 \in STABLE_SYMBOLS

\* update_latest.is_eth
is_eth(chainId) == chainId = 1

\* a plausible slip: the chain label forgotten
is_ethereum_chain_idonly(chain, chainId) == chainId = 1

\* latest.is_ethereum_chain
is_ethereum_chain(chain, chainId) ==
    IF chainId = 1 THEN TRUE
    ELSE StrStrip(StrLower(chain)) \in {S_ethereum, S_eth, S_mainnet}

-----------------------------------------------------------------------------
(* Ranker *)

\* a plausible slip: every tier ranked by borrowApy
primary_borrow_only(group, r) == r.borrowApy

\* sort_markets.key: the within-tier primary component
primary(group, r) == IF group \in {0, 1} THEN r.borrowApy ELSE 0 - r.supplyApy

\* sort_markets.key: the tier
group_of(r) ==
    IF r.isStable /\ r.isEthereum THEN 0
    ELSE IF r.isStable /\ ~r.isEthereum THEN 1
    ELSE IF ~r.isStable /\ r.isEthereum THEN 2
    ELSE 3

\* a plausible slip: the chain tie-breaker left out of the key
key_nochain(r) == <<group_of(r), primary(group_of(r), r), 0 - r.tvlUsd, r.symbol, <<>> >>

\* sort_markets.key
key(r) == <<group_of(r), primary(group_of(r), r), 0 - r.tvlUsd, r.symbol, r.chain>>

\* Python's order on the key tuples: lexicographic, numbers by value, str as above
KeyLess(a, b) ==
    IF a[1] # b[1] THEN a[1] < b[1]
    ELSE IF a[2] # b[2] THEN a[2] < b[2]
    ELSE IF a[3] # b[3] THEN a[3] < b[3]
    ELSE IF a[4] # b[4] THEN StrLess(a[4], b[4])
    ELSE StrLess(a[5], b[5])

\* sorted() is stable: a row goes after every row already placed whose key is not greater
RECURSIVE InsertByKey(_, _)
InsertByKey(r, s) ==
    IF s = <<>> THEN <<r>>
    ELSE IF KeyLess(key(r), key(Head(s))) THEN <<r>> \o s
    ELSE <<Head(s)>> \o InsertByKey(r, Tail(s))

RECURSIVE SortedPrefix(_, _)
SortedPrefix(rs, n) ==
    IF n = 0 THEN <<>> ELSE InsertByKey(rs[n], SortedPrefix(rs, n - 1))

\* sort_markets(rows) = sorted(rows, key=key)
sort_markets(rs) == SortedPrefix(rs, Len(rs))

-----------------------------------------------------------------------------
(* Bounds *)

MaxMarkets == 2     \* longest market list in data/markets.json
MaxReserves == 2    \* most reserve entries one run of update_latest receives in all
MaxRows == 2        \* longest argument of sort_markets called on its own

-----------------------------------------------------------------------------
(* Inputs: data/markets.json *)

\* A descriptor of the market list.  update_latest reads chainId and market;
\* latest reads all five keys (chain is optional there).
Desc(cid, mkt, tok, sym, ch) ==
    [chainId |-> cid, market |-> mkt, underlyingToken |-> tok, symbol |-> sym, chain |-> ch]

UDescs ==
    { Desc(Some(1), Some("0xA"), Null, Null, Null),
      Desc(Some(137), Some("0xB"), Null, Null, Null),
      Desc(Some(1), Null, Null, Null, Null) }                  \* "market" missing

LDescs ==
    { Desc(Some(1), Some("0xA"), Some("0xusdc"), Some(S_aUSDC), Some(S_Ethereum)),
      Desc(Some(1), Some("0xB"), Some("0xusdc"), Some(S_aUSDC), Some(S_Ethereum)),
      Desc(Some(137), Some("0xC"), Some("0xusdc"), Some(S_aUSDC), Some(S_Mainnet_)),
      Desc(Some(137), Some("0xD"), Some("0xweth"), Some(S_WETH), Null),
      Desc(Some(137), Null, Some("0xweth"), Some(S_WETH), Some(S_Polygon)) }  \* "market" missing

\* shape: "no_file"     data/markets.json does not exist
\*        "no_evm"      the document has no evm / aave section
\*        "aave_list"   evm.aave is a list of descriptors (what latest.py reads)
\*        "aave_object" evm.aave is {minTvlUsd, markets} (what update_latest.py reads)
Config(shape, floor, ms) == [shape |-> shape, minTvlUsd |-> floor, markets |-> ms]

MIN_TVL_DEFAULT == 10000000

Floors == {Null, Some(12000000)}

-----------------------------------------------------------------------------
(* Inputs: the API's answers *)

ValueObj(v) == Some([value |-> v])

Reserve(tok, sapy, stotal, bapy, util, usd) ==
    [underlyingToken |-> tok,
     supplyInfo |-> Some([apy |-> sapy, total |-> stotal]),
     borrowInfo |-> Some([apy |-> bapy, utilizationRate |-> util,
                          total |-> Some([usdPerToken |-> usd])])]

Tokens ==
    { Null,
      Some([symbol |-> Some(S_aUSDC), address |-> Some("0xusdc")]) }

SupplyTotals == {4500000, 5000000, 6000000}

\* every required value present
CompleteReserves ==
    { Reserve(t, ValueObj(Some(200)), ValueObj(Some(s)), ValueObj(Some(300)),
              ValueObj(Some(80)), Some(2)) : t \in Tokens, s \in SupplyTotals }

BaseReserve ==
    Reserve(Some([symbol |-> Some(S_WETH), address |-> Some("0xweth")]),
            ValueObj(Some(200)), ValueObj(Some(6000000)), ValueObj(Some(300)),
            ValueObj(Some(80)), Some(2))

\* BaseReserve with one object or one required value null (or absent)
IncompleteReserves ==
    { [BaseReserve EXCEPT !.supplyInfo = Null],
      [BaseReserve EXCEPT !.borrowInfo = Null],
      [BaseReserve EXCEPT !.supplyInfo = Some([Val(@) EXCEPT !.apy = Null])],
      [BaseReserve EXCEPT !.supplyInfo = Some([Val(@) EXCEPT !.apy = ValueObj(Null)])],
      [BaseReserve EXCEPT !.supplyInfo = Some([Val(@) EXCEPT !.total = Null])],
      [BaseReserve EXCEPT !.supplyInfo = Some([Val(@) EXCEPT !.total = ValueObj(Null)])],
      [BaseReserve EXCEPT !.borrowInfo = Some([Val(@) EXCEPT !.apy = Null])],
      [BaseReserve EXCEPT !.borrowInfo = Some([Val(@) EXCEPT !.apy = ValueObj(Null)])],
      [BaseReserve EXCEPT !.borrowInfo = Some([Val(@) EXCEPT !.utilizationRate = Null])],
      [BaseReserve EXCEPT !.borrowInfo = Some([Val(@) EXCEPT !.utilizationRate = ValueObj(Null)])],
      [BaseReserve EXCEPT !.borrowInfo = Some([Val(@) EXCEPT !.total = Null])],
      [BaseReserve EXCEPT !.borrowInfo = Some([Val(@) EXCEPT !.total = Some([usdPerToken |-> Null])])] }

Reserves == CompleteReserves \cup IncompleteReserves

\* An HTTP response.  status "error": raise_for_status raises (non-2xx, timeout).
\* errors: the GraphQL "errors" array, null when there is none.
\* hasData: the payload has a "data" key; data: its value.
Response(status, errors, hasData, data) ==
    [status |-> status, errors |-> errors, hasData |-> hasData, data |-> data]

HttpError == Response("error", Null, FALSE, Null)

RespChains == { [chainId |-> 1, name |-> Some(S_Ethereum)],
                [chainId |-> 137, name |-> Some(S_Polygon)] }

\* update_latest: the answers to GetMarket.  The market's reserve list has n
\* entries; what each entry holds is drawn when the loop reaches it.
MarketData(c, n) == Some([market |-> Some([chain |-> c, nReserves |-> n])])

UResponses(budget) ==
    { HttpError,
      Response("ok", Null, FALSE, Null),                          \* no "data" key
      Response("ok", Null, TRUE, Null),                           \* "data": null
      Response("ok", Some("E"), TRUE, Null),                      \* errors, "data": null
      Response("ok", Null, TRUE, Some([market |-> Null])),        \* "market": null
      Response("ok", Some("E"), TRUE,                             \* errors beside data
               MarketData([chainId |-> 1, name |-> Some(S_Ethereum)], 0)) }
    \cup { Response("ok", Null, TRUE, MarketData(c, n)) : c \in RespChains, n \in 0 .. budget }

\* latest: the answers to GetReserve
LReservePayloads ==
    { BaseReserve,
      [BaseReserve EXCEPT !.supplyInfo = Null],
      [BaseReserve EXCEPT !.borrowInfo = Some([Val(@) EXCEPT !.apy = ValueObj(Null)])] }

LResponses ==
    { HttpError,
      Response("ok", Some("E"), TRUE, Null),                      \* errors, "data": null
      Response("ok", Null, TRUE, Some([reserve |-> Null])),       \* "reserve": null
      Response("ok", Some("E"), TRUE, Some([reserve |-> Some(BaseReserve)])) }  \* errors beside data
    \cup { Response("ok", Null, TRUE, Some([reserve |-> Some(p)])) : p \in LReservePayloads }

-----------------------------------------------------------------------------
(* State shared by the two scripts *)

\* An exception that ends the run.  msg is the fixed part of its message;
\* chainId, address and symbol are the descriptor fields the message
\* interpolates (null when it does not); task is the fetch that raised it
\* (0 when it was raised before any fetch).
Exc(type, msg, cid, addr, sym, task) ==
    [type |-> type, msg |-> msg, chainId |-> cid, address |-> addr, symbol |-> sym,
     task |-> task]

\* One fetch: state is "new" (coroutine created), "posted" (session.post issued),
\* "done" or "raised"; resp is the response it got; result is the row it
\* returned (latest.py), exc the exception it raised.
Task(state, resp, result, exc) ==
    [state |-> state, resp |-> resp, result |-> result, exc |-> exc]

ZeroTotals == [reserves |-> 0, skipped_nulls |-> 0, skipped_small |-> 0, kept |-> 0]

Row(chain, cid, mkt, sym, tok, sapy, bapy, util, tvl, stable, eth) ==
    [segment |-> "evm", protocol |-> "aave", chain |-> chain, chainId |-> cid,
     market |-> mkt, symbol |-> sym, underlyingToken |-> tok, supplyApy |-> sapy,
     borrowApy |-> bapy, utilization |-> util, tvlUsd |-> tvl, isStable |-> stable,
     isEthereum |-> eth]

Init ==
    /\ script \in {"update_latest", "latest"}
    /\ \/ /\ script = "update_latest"
          /\ \/ cfg \in {Config(s, Null, <<>>) : s \in {"no_file", "no_evm", "aave_list"}}
             \/ \E n \in 0 .. MaxMarkets : \E ms \in [1 .. n -> UDescs] : \E f \in Floors :
                    cfg = Config("aave_object", f, ms)
       \/ /\ script = "latest"
          /\ \/ cfg \in {Config(s, Null, <<>>) : s \in {"no_file", "no_evm"}}
             \/ \E n \in 0 .. MaxMarkets : \E ms \in [1 .. n -> LDescs] :
                    cfg = Config("aave_list", Null, ms)
    /\ pc = "start"
    /\ min_tvl = 0 /\ mi = 0 /\ pending = 0 /\ chain_id = 0 /\ chain_name = <<>>
    /\ rows = <<>> /\ totals = ZeroTotals /\ tasks = <<>> /\ completed = <<>>
    /\ netCalls = 0 /\ latest_json = Null /\ err = Null
    /\ sortIn = <<>> /\ sortOut = Null

Fail(e) == pc' = "failed" /\ err' = Some(e)

-----------------------------------------------------------------------------
(* scripts/update_latest.py: main *)

\* line 88: float(aave_cfg.get("minTvlUsd", 10_000_000))
MinTvlOf(c) == IF IsNull(c.minTvlUsd) THEN MIN_TVL_DEFAULT ELSE Val(c.minTvlUsd)

\* lines 83-91: read the configuration
ULoadConfig ==
    /\ script = "update_latest" /\ pc = "start"
    /\ IF cfg.shape = "no_file"
       THEN Fail(Exc("FileNotFoundError", "data/markets.json", Null, Null, Null, 0))
            /\ UNCHANGED <<min_tvl, mi>>
       ELSE IF cfg.shape = "aave_list"
       THEN Fail(Exc("SystemExit", "evm -> aave must be an object", Null, Null, Null, 0))
            /\ UNCHANGED <<min_tvl, mi>>
       ELSE IF cfg.markets = <<>>     \* also "no_evm": the .get defaults give an empty list
       THEN Fail(Exc("SystemExit", "No markets found", Null, Null, Null, 0))
            /\ min_tvl' = MinTvlOf(cfg) /\ UNCHANGED mi
       ELSE /\ min_tvl' = MinTvlOf(cfg)
            /\ mi' = 1
            /\ pc' = "loop"
            /\ UNCHANGED err
    /\ UNCHANGED <<script, cfg, pending, chain_id, chain_name, rows, totals, tasks,
                   completed, netCalls, latest_json, sortIn, sortOut>>

\* lines 100-105: the next market of the list; build the request and post it
UBeginMarket ==
    /\ script = "update_latest" /\ pc = "loop" /\ mi <= Len(cfg.markets)
    /\ LET m == cfg.markets[mi] IN
       IF IsNull(m.chainId) \/ IsNull(m.market)
       THEN /\ Fail(Exc("KeyError", "chainId/market", Null, Null, Null, 0))
            /\ UNCHANGED <<tasks, netCalls>>
       ELSE /\ tasks' = Append(tasks, Task("posted", Null, Null, Null))
            /\ netCalls' = netCalls + 1
            /\ pc' = "awaiting"
            /\ UNCHANGED err
    /\ UNCHANGED <<script, cfg, min_tvl, mi, pending, chain_id, chain_name, rows, totals,
                   completed, latest_json, sortIn, sortOut>>

\* lines 106-119: the response arrives
UReceive(resp) ==
    /\ script = "update_latest" /\ pc = "awaiting"
    /\ LET m == cfg.markets[mi]
           t == Len(tasks)
           raise(e) == /\ Fail(e)
                       /\ tasks' = [tasks EXCEPT ![t] = Task("raised", Some(resp), Null, Some(e))]
                       /\ UNCHANGED <<mi, pending, chain_id, chain_name>>
       IN
       IF resp.status = "error"
       THEN raise(Exc("ClientResponseError", "raise_for_status", Null, Null, Null, t))
       ELSE IF ~IsNull(resp.errors)
       THEN raise(Exc("RuntimeError", "GraphQL errors: <errors>", Null, Null, Null, t))
       ELSE IF resp.hasData /\ IsNull(resp.data)
       THEN raise(Exc("AttributeError", "NoneType has no attribute get", Null, Null, Null, t))
       ELSE IF ~resp.hasData \/ IsNull(Val(resp.data).market)
       THEN raise(Exc("RuntimeError", "Market not found for chainId= address=",
                      m.chainId, m.market, Null, t))
       ELSE LET md == Val(Val(resp.data).market) IN
            /\ tasks' = [tasks EXCEPT ![t] = Task("done", Some(resp), Null, Null)]
            /\ chain_id' = md.chain.chainId
            /\ chain_name' = StrLower(IF IsNull(md.chain.name) THEN <<>> ELSE Val(md.chain.name))
            /\ pending' = md.nReserves
            /\ mi' = IF md.nReserves = 0 THEN mi + 1 ELSE mi
            /\ pc' = IF md.nReserves = 0 THEN "loop" ELSE "reserves"
            /\ UNCHANGED err
    /\ UNCHANGED <<script, cfg, min_tvl, rows, totals, completed, netCalls, latest_json,
                   sortIn, sortOut>>

\* lines 127-148: a sub-object or a required value is missing
IsIncomplete(r) ==
    \/ IsNull(r.supplyInfo)
    \/ IsNull(r.borrowInfo)
    \/ LET si == Val(r.supplyInfo)
           bi == Val(r.borrowInfo)
           leaf(o) == IF IsNull(o) THEN Null ELSE Val(o).value
       IN  \/ IsNull(leaf(si.apy))
           \/ IsNull(leaf(bi.apy))
           \/ IsNull(leaf(bi.utilizationRate))
           \/ IsNull(IF IsNull(bi.total) THEN Null ELSE Val(bi.total).usdPerToken)
           \/ IsNull(leaf(si.total))

\* lines 154-156 (latest.py 77-79): supply_total * usd_per_token
TvlUsd(r) ==
    Val(Val(Val(r.supplyInfo).total).value) * Val(Val(Val(r.borrowInfo).total).usdPerToken)

\* a plausible slip: the comparison turned around
BelowFloor_flipped(tvl, floor) == tvl > floor

\* line 158
BelowFloor(tvl, floor) == tvl < floor

\* lines 129-160: which counter the reserve goes to
Outcome(r, floor) ==
    IF IsIncomplete(r) THEN "skipped_nulls"
    ELSE IF BelowFloor(TvlUsd(r), floor) THEN "skipped_small"
    ELSE "kept"

\* a plausible slip: a dropped reserve is not counted as skipped
Count_nosmall(t, outcome) ==
    IF outcome = "skipped_small" THEN [t EXCEPT !.reserves = @ + 1]
    ELSE [t EXCEPT !.reserves = @ + 1, ![outcome] = @ + 1]

\* lines 121, 130, 147, 159, 179
CountReserve(t, outcome) == [t EXCEPT !.reserves = @ + 1, ![outcome] = @ + 1]

\* lines 123-125, 150-176: the row of a complete reserve
URow(m, r, cid, cname) ==
    LET token  == r.underlyingToken
        symbol == IF IsNull(token) \/ IsNull(Val(token).symbol) THEN <<>> ELSE Val(Val(token).symbol)
        addr   == IF IsNull(token) \/ IsNull(Val(token).address) THEN "" ELSE Val(Val(token).address)
        si     == Val(r.supplyInfo)
        bi     == Val(r.borrowInfo)
    IN  Row(cname, cid, Val(m.market), symbol, addr,
            Val(Val(si.apy).value), Val(Val(bi.apy).value), Val(Val(bi.utilizationRate).value),
            TvlUsd(r), is_stable(symbol), is_eth(cid))

\* lines 120-179: one pass of the loop over the reserves
UProcessReserve(r) ==
    /\ script = "update_latest" /\ pc = "reserves" /\ pending > 0
    /\ LET o == Outcome(r, min_tvl) IN
       /\ totals' = CountReserve(totals, o)
       /\ rows' = IF o = "kept" THEN Append(rows, URow(cfg.markets[mi], r, chain_id, chain_name))
                  ELSE rows
    /\ pending' = pending - 1
    /\ mi' = IF pending = 1 THEN mi + 1 ELSE mi
    /\ pc' = IF pending = 1 THEN "loop" ELSE "reserves"
    /\ UNCHANGED <<script, cfg, min_tvl, chain_id, chain_name, tasks, completed, netCalls,
                   latest_json, err, sortIn, sortOut>>

\* lines 183-188 without updatedAt
USnapshot(rs, t, floor) == [markets |-> rs, counts |-> t, minTvlUsd |-> floor]

\* lines 181-191: the list is exhausted; sort, assemble, write
UFinish ==
    /\ script = "update_latest" /\ pc = "loop" /\ mi > Len(cfg.markets)
    /\ rows' = sort_markets(rows)
    /\ latest_json' = Some(USnapshot(rows', totals, min_tvl))
    /\ pc' = "written"
    /\ UNCHANGED <<script, cfg, min_tvl, mi, pending, chain_id, chain_name, totals, tasks,
                   completed, netCalls, err, sortIn, sortOut>>

UNext ==
    \/ ULoadConfig
    \/ UBeginMarket
    \/ \E resp \in UResponses(MaxReserves - totals.reserves) : UReceive(resp)
    \/ \E r \in Reserves : UProcessReserve(r)
    \/ UFinish

-----------------------------------------------------------------------------
(* scripts/latest.py: main and fetch_aave *)

\* lines 144-154: read the configuration, create one fetch_aave coroutine per
\* descriptor and hand them to asyncio.gather
LLoadConfig ==
    /\ script = "latest" /\ pc = "start"
    /\ IF cfg.shape = "no_file"
       THEN Fail(Exc("FileNotFoundError", "data/markets.json", Null, Null, Null, 0))
            /\ UNCHANGED tasks
       ELSE IF cfg.markets = <<>>     \* also "no_evm": the .get defaults give an empty list
       THEN Fail(Exc("SystemExit", "No markets found", Null, Null, Null, 0))
            /\ UNCHANGED tasks
       ELSE /\ tasks' = [i \in 1 .. Len(cfg.markets) |-> Task("new", Null, Null, Null)]
            /\ pc' = "gather"
            /\ UNCHANGED err
    /\ UNCHANGED <<script, cfg, min_tvl, mi, pending, chain_id, chain_name, rows, totals,
                   completed, netCalls, latest_json, sortIn, sortOut>>

\* lines 55-63: a coroutine's first step.  The event loop starts the tasks
\* gather created in their order, each running to its first suspension.
LTaskStart(i) ==
    /\ script = "latest" /\ pc = "gather"
    /\ i \in DOMAIN tasks /\ tasks[i].state = "new"
    /\ \A j \in 1 .. i - 1 : tasks[j].state # "new"
    /\ LET item == cfg.markets[i] IN
       IF IsNull(item.chainId) \/ IsNull(item.market) \/ IsNull(item.underlyingToken)
       THEN /\ tasks' = [tasks EXCEPT ![i] =
                           Task("raised", Null, Null,
                                Some(Exc("KeyError", "chainId/market/underlyingToken",
                                         Null, Null, Null, i)))]
            /\ completed' = Append(completed, i)
            /\ UNCHANGED netCalls
       ELSE /\ tasks' = [tasks EXCEPT ![i] = Task("posted", Null, Null, Null)]
            /\ netCalls' = netCalls + 1
            /\ UNCHANGED completed
    /\ UNCHANGED <<script, cfg, pc, min_tvl, mi, pending, chain_id, chain_name, rows, totals,
                   latest_json, err, sortIn, sortOut>>

\* lines 73-78: a subscript of None or float(None) raises TypeError
LNormalizeRaises(r) ==
    \/ IsNull(r.supplyInfo)
    \/ IsNull(r.borrowInfo)
    \/ LET si == Val(r.supplyInfo)
           bi == Val(r.borrowInfo)
       IN  \/ IsNull(si.apy) \/ IsNull(Val(si.apy).value)
           \/ IsNull(bi.apy) \/ IsNull(Val(bi.apy).value)
           \/ IsNull(bi.utilizationRate) \/ IsNull(Val(bi.utilizationRate).value)
           \/ IsNull(si.total) \/ IsNull(Val(si.total).value)
           \/ IsNull(bi.total) \/ IsNull(Val(bi.total).usdPerToken)

\* lines 73-99: the row of a reserve (item has a symbol, r is complete)
LRow(item, r) ==
    LET si    == Val(r.supplyInfo)
        bi    == Val(r.borrowInfo)
        sym   == Val(item.symbol)
        chain == IF IsNull(item.chain) THEN S_unknown ELSE Val(item.chain)
        cid   == Val(item.chainId)
    IN  Row(chain, cid, Val(item.market), sym, Val(item.underlyingToken),
            Val(Val(si.apy).value), Val(Val(bi.apy).value), Val(Val(bi.utilizationRate).value),
            TvlUsd(r), is_stable_latest(sym), is_ethereum_chain(chain, cid))

\* lines 63-99: the response arrives; the coroutine returns a row or raises.
\* No response is handled before every coroutine has taken its first step:
\* those steps are all queued before the loop polls for I/O.
LTaskReceive(i, resp) ==
    /\ script = "latest" /\ pc = "gather"
    /\ i \in DOMAIN tasks /\ tasks[i].state = "posted"
    /\ \A j \in DOMAIN tasks : tasks[j].state # "new"
    /\ LET item == cfg.markets[i]
           raise(e) == tasks' = [tasks EXCEPT ![i] = Task("raised", Some(resp), Null, Some(e))]
       IN
       IF resp.status = "error"
       THEN raise(Exc("ClientResponseError", "raise_for_status", Null, Null, Null, i))
       ELSE IF ~resp.hasData
       THEN raise(Exc("KeyError", "data", Null, Null, Null, i))
       ELSE IF IsNull(resp.data)
       THEN raise(Exc("TypeError", "NoneType is not subscriptable", Null, Null, Null, i))
       ELSE IF IsNull(Val(resp.data).reserve)
       THEN raise(Exc("RuntimeError", "Aave reserve returned null for symbol= chainId=",
                      item.chainId, Null, item.symbol, i))
       ELSE IF LNormalizeRaises(Val(Val(resp.data).reserve))
       THEN raise(Exc("TypeError", "NoneType is not subscriptable", Null, Null, Null, i))
       ELSE IF IsNull(item.symbol)
       THEN raise(Exc("KeyError", "symbol", Null, Null, Null, i))
       ELSE tasks' = [tasks EXCEPT ![i] =
                        Task("done", Some(resp), Some(LRow(item, Val(Val(resp.data).reserve))), Null)]
    /\ completed' = Append(completed, i)
    /\ UNCHANGED <<script, cfg, pc, min_tvl, mi, pending, chain_id, chain_name, rows, totals,
                   netCalls, latest_json, err, sortIn, sortOut>>

RECURSIVE FirstRaised(_, _)
FirstRaised(ts, order) ==
    IF ts[Head(order)].state = "raised" THEN Head(order) ELSE FirstRaised(ts, Tail(order))

\* line 154: gather propagates the first exception raised to main; the
\* siblings' results are dropped and nothing after line 154 runs
LGatherRaise ==
    /\ script = "latest" /\ pc = "gather"
    /\ \A i \in DOMAIN tasks : tasks[i].state # "new"
    /\ \E i \in DOMAIN tasks : tasks[i].state = "raised"
    /\ Fail(Val(tasks[FirstRaised(tasks, completed)].exc))
    /\ UNCHANGED <<script, cfg, min_tvl, mi, pending, chain_id, chain_name, rows, totals,
                   tasks, completed, netCalls, latest_json, sortIn, sortOut>>

\* a plausible slip: the results collected as the fetches complete
GatherResults_completion(ts, order) == [k \in 1 .. Len(order) |-> Val(ts[order[k]].result)]

\* line 154: gather returns the results in the order of its arguments
GatherResults(ts, order) == [i \in 1 .. Len(ts) |-> Val(ts[i].result)]

\* lines 158-168 without updatedAt
LSnapshot(rs) ==
    LET n == Len(rs) IN
    [markets |-> rs,
     counts |-> [total |-> n,
                 stable |-> Cardinality({i \in 1 .. n : rs[i].isStable}),
                 nonStable |-> Cardinality({i \in 1 .. n : ~rs[i].isStable}),
                 ethereum |-> Cardinality({i \in 1 .. n : rs[i].isEthereum}),
                 nonEthereum |-> Cardinality({i \in 1 .. n : ~rs[i].isEthereum})]]

\* lines 154-171: every fetch returned; sort, assemble, write
LGatherDone ==
    /\ script = "latest" /\ pc = "gather"
    /\ \A i \in DOMAIN tasks : tasks[i].state = "done"
    /\ rows' = sort_markets(GatherResults(tasks, completed))
    /\ latest_json' = Some(LSnapshot(rows'))
    /\ pc' = "written"
    /\ UNCHANGED <<script, cfg, min_tvl, mi, pending, chain_id, chain_name, totals, tasks,
                   completed, netCalls, err, sortIn, sortOut>>

LNext ==
    \/ LLoadConfig
    \/ \E i \in DOMAIN tasks : LTaskStart(i)
    \/ \E i \in DOMAIN tasks : \E resp \in LResponses : LTaskReceive(i, resp)
    \/ LGatherRaise
    \/ LGatherDone

Next == UNext \/ LNext

Spec == Init /\ [][Next]_vars

-----------------------------------------------------------------------------
(* sort_markets on its own: every list of up to MaxRows rows *)

SortApys == {<<200, 500>>, <<500, 200>>, <<200, 200>>}    \* <<borrowApy, supplyApy>>
SortTvls == {10000000, 12000000}
SortSymbols == {S_USDC, S_WETH}
SortChains == {S_ethereum, S_polygon}

SortRows ==
    { Row(c, 0, "", s, "", a[2], a[1], 0, t, st, e) :
        c \in SortChains, s \in SortSymbols, a \in SortApys, t \in SortTvls,
        st \in BOOLEAN, e \in BOOLEAN }

SortInit ==
    /\ \E n \in 0 .. MaxRows : sortIn \in [1 .. n -> SortRows]
    /\ sortOut = Null
    /\ script = "sort" /\ cfg = Null /\ pc = "call"
    /\ min_tvl = 0 /\ mi = 0 /\ pending = 0 /\ chain_id = 0 /\ chain_name = <<>>
    /\ rows = <<>> /\ totals = ZeroTotals /\ tasks = <<>> /\ completed = <<>>
    /\ netCalls = 0 /\ latest_json = Null /\ err = Null

CallSort ==
    /\ script = "sort" /\ pc = "call"
    /\ sortOut' = Some(sort_markets(sortIn))
    /\ pc' = "returned"
    /\ UNCHANGED <<script, cfg, min_tvl, mi, pending, chain_id, chain_name, rows, totals,
                   tasks, completed, netCalls, latest_json, err, sortIn>>

SortNext == CallSort

SortSpec == SortInit /\ [][SortNext]_vars

-----------------------------------------------------------------------------
(* Vocabulary of the properties *)

Count(s, r) == Cardinality({i \in 1 .. Len(s) : s[i] = r})

\* the rows of the snapshot written, if any
Written == IF IsNull(latest_json) THEN <<>> ELSE Val(latest_json).markets

\* the floor the configuration asks for
ConfiguredFloor == IF IsNull(cfg.minTvlUsd) THEN MIN_TVL_DEFAULT ELSE Val(cfg.minTvlUsd)

\* the tier of the ranking table
Tier(r) ==
    CASE r.isStable /\ r.isEthereum -> 0
      [] r.isStable /\ ~r.isEthereum -> 1
      [] ~r.isStable /\ r.isEthereum -> 2
      [] OTHER -> 3

\* the market / reserve node of a response that has a "data" object
DataNode(resp) ==
    IF script = "latest" THEN Val(resp.data).reserve ELSE Val(resp.data).market

\* a fetch that failed: HTTP error or timeout, GraphQL errors, null market/reserve
FetchFailed(resp) ==
    \/ resp.status = "error"
    \/ ~IsNull(resp.errors)
    \/ ~resp.hasData
    \/ IsNull(resp.data)
    \/ IsNull(DataNode(resp))

\* a protocol error: the HTTP exchange succeeded and the payload carries
\* GraphQL errors or a null market/reserve in "data"
ProtocolError(resp) ==
    /\ resp.status = "ok"
    /\ \/ ~IsNull(resp.errors)
       \/ resp.hasData /\ ~IsNull(resp.data) /\ IsNull(DataNode(resp))

\* a data-quality issue: the fetch succeeded and the reserve lacks a
\* sub-object or a required value
DataQualityIssue(resp) ==
    /\ ~FetchFailed(resp)
    /\ script = "latest"
    /\ LNormalizeRaises(Val(DataNode(resp)))

\* the exception's message names the descriptor
NamesDescriptor(e) == ~IsNull(e.chainId) /\ (~IsNull(e.address) \/ ~IsNull(e.symbol))

\* the market list is missing, empty or malformed
ConfigurationError ==
    \/ cfg.shape \in {"no_file", "no_evm"}
    \/ script = "update_latest" /\ cfg.shape # "aave_object"
    \/ cfg.markets = <<>>
    \/ \E i \in DOMAIN cfg.markets :
          IsNull(cfg.markets[i].chainId) \/ IsNull(cfg.markets[i].market)

-----------------------------------------------------------------------------
(* C1 *)

C1_Partition ==
    /\ totals.reserves = totals.skipped_nulls + totals.skipped_small + totals.kept
    /\ script = "update_latest" => Len(rows) = totals.kept

C1_Step ==
    /\ pending' = pending - 1 => totals'.reserves = totals.reserves + 1
    /\ totals' # totals =>
         /\ totals'.reserves = totals.reserves + 1
         /\ \E c \in {"skipped_nulls", "skipped_small", "kept"} :
               /\ totals'[c] = totals[c] + 1
               /\ \A d \in {"skipped_nulls", "skipped_small", "kept"} \ {c} :
                     totals'[d] = totals[d]
               /\ IF c = "kept" THEN Len(rows') = Len(rows) + 1 /\ SubSeq(rows', 1, Len(rows)) = rows
                  ELSE rows' = rows

\* C1: in update_latest.main every reserve processed adds one to 'reserves'
\* and to exactly one of 'skipped_nulls', 'skipped_small', 'kept', so that
\* reserves = skipped_nulls + skipped_small + kept throughout, and a row is
\* appended exactly when 'kept' is the counter that grew.
C1_FilterCounters == [](C1_Partition) /\ [][C1_Step]_vars

C1_Witness ==
    /\ script = "update_latest"
    /\ totals.kept >= 1
    /\ totals.skipped_nulls + totals.skipped_small >= 1

-----------------------------------------------------------------------------
(* C2 *)

\* C2: every row update_latest keeps, and every row of the snapshot it
\* writes, has tvlUsd >= the configured floor (10,000,000 when none is
\* configured), tvlUsd being a supply total times a USD price; the snapshot
\* reports that floor.
C2_KeptAboveFloor ==
    script = "update_latest" =>
       /\ \A i \in DOMAIN rows :
             /\ rows[i].tvlUsd >= ConfiguredFloor
             /\ rows[i].tvlUsd \in {s * 2 : s \in SupplyTotals}
       /\ ~IsNull(latest_json) =>
             /\ \A i \in DOMAIN Written : Written[i].tvlUsd >= ConfiguredFloor
             /\ Val(latest_json).minTvlUsd = ConfiguredFloor
             /\ Len(Written) = totals.kept

C2_Witness ==
    /\ script = "update_latest"
    /\ ~IsNull(latest_json)
    /\ Len(Written) >= 1
    /\ totals.skipped_small >= 1
    /\ \E i \in DOMAIN Written : Written[i].tvlUsd = ConfiguredFloor

-----------------------------------------------------------------------------
(* C3 *)

\* C3: a run is all-or-nothing: the snapshot is written only in runs in which
\* no fetch failed (HTTP error or timeout, GraphQL error array, null
\* market/reserve).
C3_AllOrNothing ==
    ~IsNull(latest_json) =>
       \A i \in DOMAIN tasks :
          ~IsNull(tasks[i].resp) /\ ~FetchFailed(Val(tasks[i].resp))

-----------------------------------------------------------------------------
(* C4 *)

\* C4: a data-quality issue never fails a run: no fetch whose reserve lacks
\* supplyInfo, borrowInfo or a required value raises.
C4_DataQualityNeverRaises ==
    \A i \in DOMAIN tasks :
       (~IsNull(tasks[i].resp) /\ DataQualityIssue(Val(tasks[i].resp)))
          => tasks[i].state # "raised"

-----------------------------------------------------------------------------
(* C5 *)

\* C5: when a run fails with a protocol error (a GraphQL errors array, or a
\* null market/reserve), the exception names the descriptor whose fetch failed.
C5_ProtocolErrorNamesDescriptor ==
    (pc = "failed" /\ Val(err).task # 0
       /\ ~IsNull(tasks[Val(err).task].resp)
       /\ ProtocolError(Val(tasks[Val(err).task].resp)))
    => NamesDescriptor(Val(err))

-----------------------------------------------------------------------------
(* C6 *)

\* C6: sort_markets returns a permutation of its argument in which the tiers
\* come in the order 0, 1, 2, 3; within tiers 0 and 1 borrowApy ascends,
\* within tiers 2 and 3 supplyApy descends; rows of a tier with equal primary
\* value are in descending tvlUsd, then ascending symbol, then ascending chain.
C6_SortContract ==
    ~IsNull(sortOut) =>
       LET out == Val(sortOut) IN
       /\ Len(out) = Len(sortIn)
       /\ \A k \in DOMAIN sortIn : Count(out, sortIn[k]) = Count(sortIn, sortIn[k])
       /\ \A i, j \in DOMAIN out :
             i < j =>
                LET a == out[i]
                    b == out[j]
                    samePrimary == IF Tier(a) \in {0, 1} THEN a.borrowApy = b.borrowApy
                                   ELSE a.supplyApy = b.supplyApy
                IN
                /\ Tier(a) <= Tier(b)
                /\ (Tier(a) = Tier(b) /\ Tier(a) \in {0, 1}) => a.borrowApy <= b.borrowApy
                /\ (Tier(a) = Tier(b) /\ Tier(a) \in {2, 3}) => a.supplyApy >= b.supplyApy
                /\ (Tier(a) = Tier(b) /\ samePrimary) => a.tvlUsd >= b.tvlUsd
                /\ (Tier(a) = Tier(b) /\ samePrimary /\ a.tvlUsd = b.tvlUsd)
                      => ~StrLess(b.symbol, a.symbol)
                /\ (Tier(a) = Tier(b) /\ samePrimary /\ a.tvlUsd = b.tvlUsd
                      /\ a.symbol = b.symbol)
                      => ~StrLess(b.chain, a.chain)

C6_Witness ==
    /\ ~IsNull(sortOut)
    /\ Len(sortIn) = 2
    /\ Val(sortOut) # sortIn
    /\ Tier(sortIn[1]) = 0 /\ Tier(sortIn[2]) = 0
    /\ sortIn[1].borrowApy = sortIn[2].borrowApy
    /\ sortIn[1].tvlUsd = sortIn[2].tvlUsd
    /\ sortIn[1].symbol = sortIn[2].symbol

-----------------------------------------------------------------------------
(* C7 *)

KeptRows == {rows[i] : i \in DOMAIN rows}

\* C7 as stated: two distinct kept rows never have equal sort keys.
C7_TotalOrder ==
    \A a, b \in KeptRows : a # b => key(a) # key(b)

\* C7 amended: two kept rows have equal sort keys exactly when they agree on
\* tier, on the tier's primary value (borrowApy in tiers 0 and 1, supplyApy in
\* tiers 2 and 3), on tvlUsd, on symbol and on chain; rows that differ only in
\* other fields (market, underlyingToken, utilization, ...) compare equal.
C7_KeyEqualIffKeyFieldsAgree ==
    \A a, b \in KeptRows :
       key(a) = key(b) <=>
          /\ Tier(a) = Tier(b)
          /\ IF Tier(a) \in {0, 1} THEN a.borrowApy = b.borrowApy
             ELSE a.supplyApy = b.supplyApy
          /\ a.tvlUsd = b.tvlUsd
          /\ a.symbol = b.symbol
          /\ a.chain = b.chain

C7_Witness ==
    /\ ~IsNull(latest_json)
    /\ \E a, b \in KeptRows : a # b /\ a.market # b.market /\ key(a) = key(b)

-----------------------------------------------------------------------------
(* C8 *)

\* the rows of latest.py's run as the descriptor list and the responses
\* alone determine them: descriptor i's row, in the order of the list
RowsByDescriptor ==
    [i \in DOMAIN tasks |-> LRow(cfg.markets[i], Val(DataNode(Val(tasks[i].resp))))]

\* C8: the 'markets' latest.main writes are the ranking of the rows taken in
\* the order of the descriptor list, whatever the order in which the
\* concurrent fetches completed.
C8_OrderIndependentOfCompletion ==
    (script = "latest" /\ ~IsNull(latest_json))
       => Written = sort_markets(RowsByDescriptor)

C8_Witness ==
    /\ script = "latest"
    /\ ~IsNull(latest_json)
    /\ completed = <<2, 1>>
    /\ Written[1] # Written[2]
    /\ key(Written[1]) = key(Written[2])

-----------------------------------------------------------------------------
(* C9 *)

\* the rows either script has produced so far
ProducedRows ==
    KeptRows \cup {Written[i] : i \in DOMAIN Written}
             \cup {Val(tasks[i].result) : i \in {j \in DOMAIN tasks : ~IsNull(tasks[j].result)}}

-----------------------------------------------------------------------------
(* C10 *)

\* C10: when the market list is missing, empty or malformed (a descriptor at
\* any position lacks chainId or market), no network call is issued at any
\* point of the run and no snapshot is written.
C10_ConfigErrorBeforeNetwork ==
    ConfigurationError => (netCalls = 0 /\ IsNull(latest_json))

=============================================================================
